---------------------------- MODULE Spec2Model ----------------------------
(***************************************************************************)
(* HumFind: song recognition by humming and football play / goal           *)
(* similarity search.                                                      *)
(*                                                                         *)
(* The React front end (the three versions of the HummingSearch component  *)
(* and the FootballAnalysis component) is modelled from its source.  The   *)
(* retrieval engine behind the HTTP API (feature vectors, cosine           *)
(* similarity, ranking, index checks) is not part of the sources at hand   *)
(* and is modelled from the specification.                                 *)
(*                                                                         *)
(* Similarities and confidences are fixed-point numbers: the integer n     *)
(* stands for n / SimScale, so 5000 is 0.5 and 4999 is 0.4999.             *)
(***************************************************************************)
EXTENDS Integers, Sequences, FiniteSets, TLC

(***************************************************************************)
(* Values.  A value that may be null, undefined, NaN or absent is a        *)
(* sequence of length at most one: Null, or Some(v).  A text (the value of *)
(* an input element) is a sequence of one-character strings.               *)
(***************************************************************************)
Null == << >>

Some(v) == << v >>

Truthy(opt) == opt # Null

\* The requests still awaited once the i-th of them has settled.
RemoveAt(seq, i) == SubSeq(seq, 1, i - 1) \o SubSeq(seq, i + 1, Len(seq))

DigitChars == << "0", "1", "2", "3", "4", "5", "6", "7", "8", "9" >>

IsDigit(c) == \E i \in 1..10 : DigitChars[i] = c

DigitValue(c) == (CHOOSE i \in 1..10 : DigitChars[i] = c) - 1

\* Number.prototype.toString / the text React writes for a numeric value.
RECURSIVE DecimalText(_)
DecimalText(n) ==
    IF n < 0 THEN << "-" >> \o DecimalText(-n)
    ELSE IF n < 10 THEN << DigitChars[n + 1] >>
    ELSE DecimalText(n \div 10) \o << DigitChars[(n % 10) + 1] >>

\* The value of the longest prefix of digits of t from position i on,
\* continuing the value acc.
RECURSIVE DigitsValue(_, _, _)
DigitsValue(t, i, acc) ==
    IF i > Len(t) \/ ~IsDigit(t[i]) THEN acc
    ELSE DigitsValue(t, i + 1, acc * 10 + DigitValue(t[i]))

\* JavaScript parseInt(text), radix 10: an optional sign, then the longest
\* run of digits; NaN (Null) when no digit follows the sign.
ParseInt(t) ==
    LET signed == Len(t) > 0 /\ t[1] \in {"-", "+"}
        first  == IF signed THEN 2 ELSE 1
    IN  IF first > Len(t) \/ ~IsDigit(t[first]) THEN Null
        ELSE LET v == DigitsValue(t, first, 0)
             IN  Some(IF signed /\ t[1] = "-" THEN -v ELSE v)

(***************************************************************************)
(* Fixed-point unit of similarity scores.                                  *)
(***************************************************************************)
SimScale == 10000

(***************************************************************************)
(* Similarity Scoring Engine: cosine similarity, 0 when a norm is 0.       *)
(***************************************************************************)
RECURSIVE DotFrom(_, _, _)
DotFrom(a, b, i) ==
    IF i > Len(a) THEN 0 ELSE a[i] * b[i] + DotFrom(a, b, i + 1)

Dot(a, b) == DotFrom(a, b, 1)

NormSq(a) == Dot(a, a)

Abs(n) == IF n < 0 THEN -n ELSE n

\* The largest s in lo..hi with s * s <= q (lo * lo <= q is given).
RECURSIVE ISqrtBetween(_, _, _)
ISqrtBetween(q, lo, hi) ==
    IF lo >= hi THEN lo
    ELSE LET mid == (lo + hi + 1) \div 2
         IN  IF mid * mid <= q THEN ISqrtBetween(q, mid, hi)
                               ELSE ISqrtBetween(q, lo, mid - 1)

\* A score that leaves out the division by the norms.
CosineSimilarityRawDot(a, b) == Dot(a, b)

\* sim = (q . c) / (|q| |c|) in units of 1 / SimScale, truncated towards 0.
\* With d = |a|^2 |b|^2 the magnitude is the largest s with
\* s^2 <= SimScale^2 (a.b)^2 / d; the quotient is taken in two steps so that
\* every intermediate value stays below 2^31.
CosineSimilarity(a, b) ==
    LET dot == Dot(a, b)
        d   == NormSq(a) * NormSq(b)
    IN  IF d = 0 THEN 0
        ELSE LET m  == dot * dot * SimScale
                 q  == (m \div d) * SimScale + ((m % d) * SimScale) \div d
                 s  == ISqrtBetween(q, 0, SimScale)
             IN  IF dot < 0 THEN -s ELSE s

(***************************************************************************)
(* Ranking & Selection: descending similarity, ties by ascending corpus    *)
(* index, truncated to K.  A candidate is a record with the fields index   *)
(* and similarity.                                                         *)
(***************************************************************************)
RanksBefore(c, d) ==
    \/ c.similarity > d.similarity
    \/ c.similarity = d.similarity /\ c.index < d.index

RECURSIVE Rank(_, _)
Rank(cands, k) ==
    IF cands = {} \/ k <= 0 THEN << >>
    ELSE LET best == CHOOSE c \in cands :
                         \A d \in cands \ {c} : RanksBefore(c, d)
         IN  << best >> \o Rank(cands \ {best}, k - 1)

(***************************************************************************)
(* Play / Goal Reference Corpus.  Plays are addressed by a dense 0-based   *)
(* index.  The corpus is immutable: the first NumPlays rows of the tables. *)
(***************************************************************************)
NumPlays == 6

PlayEmbeddings ==
    << << 3, 1, 0 >>, << 3, 0, 1 >>, << 1, 3, 0 >>, << 3, 1, 0 >>,
       << 0, 1, 3 >>, << -1, 0, 3 >>, << 0, 0, 0 >>, << 1, 1, 1 >> >>

\* The scoring team of a goal-scoring play, "" for a play that is no goal.
PlayGoalTeams == << "A", "B", "A", "", "B", "A", "B", "" >>

PlayIndices == 0 .. (NumPlays - 1)

Embedding(i) == PlayEmbeddings[i + 1]

IsGoal(i) == PlayGoalTeams[i + 1] # ""

GoalIndices == { i \in PlayIndices : IsGoal(i) }

Countries == { PlayGoalTeams[i + 1] : i \in GoalIndices }

PlayRecord(i) == [index |-> i]

ScoredPlay(q, i) ==
    [index |-> i, similarity |-> CosineSimilarity(Embedding(q), Embedding(i))]

(***************************************************************************)
(* Query Orchestrator, football path.  A request is a record with the      *)
(* fields kind, index (Null or Some(integer)), top_k, max_events.  A       *)
(* response is a record with the fields error, total_plays, query and      *)
(* similar.                                                                *)
(***************************************************************************)
ErrIndexOutOfRange == "IndexOutOfRange"

ErrBadRequest == "BadRequest"

ErrNotAGoal == "NotAGoal"

FootballError(msg) ==
    [error |-> Some(msg), total_plays |-> Some(NumPlays),
     query |-> Null, similar |-> << >>]

IndexInRange(i) == 0 <= i /\ i < NumPlays

\* The candidates of a query by index: every other record of the corpus.
PlayCandidates(q) == { ScoredPlay(q, i) : i \in PlayIndices \ {q} }

GoalCandidates(q) == { ScoredPlay(q, i) : i \in GoalIndices \ {q} }

\* (a) by play index.
AnalyzePlay(req) ==
    IF req.index = Null \/ req.top_k = Null THEN FootballError(ErrBadRequest)
    ELSE LET q == req.index[1]
         IN  IF ~IndexInRange(q) THEN FootballError(ErrIndexOutOfRange)
             ELSE [error |-> Null, total_plays |-> Some(NumPlays),
                   query |-> Some(PlayRecord(q)),
                   similar |-> Rank(PlayCandidates(q), req.top_k[1])]

\* (b) by goal selection.
SimilarGoals(req) ==
    IF req.index = Null \/ req.top_k = Null THEN FootballError(ErrBadRequest)
    ELSE LET q == req.index[1]
         IN  IF ~IndexInRange(q) THEN FootballError(ErrIndexOutOfRange)
             ELSE IF ~IsGoal(q) THEN FootballError(ErrNotAGoal)
             ELSE [error |-> Null, total_plays |-> Some(NumPlays),
                   query |-> Some(PlayRecord(q)),
                   similar |-> Rank(GoalCandidates(q), req.top_k[1])]

\* Per-country goal listing: a read-only projection, in corpus order.
RECURSIVE GoalsFrom(_, _)
GoalsFrom(team, i) ==
    IF i >= NumPlays THEN << >>
    ELSE (IF PlayGoalTeams[i + 1] = team THEN << [play_index |-> i] >> ELSE << >>)
         \o GoalsFrom(team, i + 1)

GoalsOfCountry(team) == GoalsFrom(team, 0)

CountryListing == SelectSeq(<< "A", "B" >>, LAMBDA c : c \in Countries)

(***************************************************************************)
(* Song corpus and song path of the engine (specification sections 3,      *)
(* 4.1-4.5, 6 and 7).  A song is its position in the corpus; either        *)
(* feature vector of a song may be missing.  The two methods use vectors   *)
(* of different dimensionality.                                            *)
(***************************************************************************)
NumSongs == 4

SongDspVectors ==
    << Some(<< 10, 0 >>), Some(<< 0, 10 >>), Some(<< 9, 1 >>),
       Some(<< 2, 0 >>), Null, Some(<< 1, 1 >>) >>

SongAiVectors ==
    << Some(<< 2, 1, 0 >>), Some(<< 1, 2, 0 >>), Null,
       Some(<< 0, 1, 2 >>), Some(<< 1, 2, 1 >>), Some(<< 1, 1, 1 >>) >>

SongIndices == 0 .. (NumSongs - 1)

Methods == { "dsp", "ai", "both" }

\* What a recording or an uploaded file holds.
AudioKinds == { "tune", "silent" }

\* 4.1: the DSP extractor fails with UnprocessableAudio on silent audio.
DspFeatures(audio) == IF audio = "tune" THEN Some(<< 10, 0 >>) ELSE Null

\* 4.2: the AI extractor fails with ModelUnavailable without the model.
AiFeatures(audio, modelLoaded) ==
    IF modelLoaded /\ audio = "tune" THEN Some(<< 1, 2, 1 >>) ELSE Null

ScoredSong(q, vectors, i) ==
    [index |-> i, similarity |-> CosineSimilarity(q, vectors[i + 1][1])]

\* One method's list: the query against that method's corpus, ranked.
\* A failed extraction gives the empty list.
RECURSIVE AsSongResults(_)
AsSongResults(ranked) ==
    IF ranked = << >> THEN << >>
    ELSE << [index |-> ranked[1].index, confidence |-> ranked[1].similarity] >>
         \o AsSongResults(Tail(ranked))

MethodList(features, vectors, k) ==
    IF features = Null THEN << >>
    ELSE AsSongResults(
           Rank({ ScoredSong(features[1], vectors, i) :
                    i \in { j \in SongIndices : vectors[j + 1] # Null } }, k))

\* 6: the result counts of the song path.
SongTopNs == 1..5

\* 4.5, song path: one list per requested method, never merged.
SearchSongs(audio, method, k, modelLoaded) ==
    [dsp |-> Some(IF method \in { "dsp", "both" }
                  THEN MethodList(DspFeatures(audio), SongDspVectors, k)
                  ELSE << >>),
     ai  |-> Some(IF method \in { "ai", "both" }
                  THEN MethodList(AiFeatures(audio, modelLoaded),
                                  SongAiVectors, k)
                  ELSE << >>)]

(***************************************************************************)
(* State.                                                                  *)
(***************************************************************************)
VARIABLES
    mounted,                \* the component on screen
    user,                   \* which controls the user operates in the session
    \* FootballAnalysis: React state
    playId, topK, maxEventsInDescription, isLoading, queryPlay, similarPlays,
    selectedSimilarIdx, error, totalPlays, countries, selectedCountry,
    countryGoals, selectedGoalIndex, isLoadingGoals, queryGoal, similarGoals,
    selectedSimilarGoalIdx, goalError, searchMode,
    \* FootballAnalysis: requests in flight
    fbReq,                  \* the search requests awaiting their response
    countriesFetch,         \* whether the country listing is still awaited
    goalsFetches,           \* countries whose goal listing is still awaited
    \* a result card on its own: the component, its props, what it renders
    cardView, cardValue, cardIsQuery, rendered,
    \* HummingSearch: which version of the component, and the engine's model
    version, aiAvailable,
    \* HummingSearch: React state
    inputMode, isRecording, audioBlob, uploadedFile, resultCount, useAiModel,
    isSearching, dspResults, aiResults, searchResults, recordingTime,
    \* HummingSearch: refs and asynchronous work
    micPending,             \* getUserMedia calls awaiting the user's answer
    mediaRecorder,          \* state of mediaRecorderRef.current
    timerLive,              \* the interval of timerRef.current is running
    leakedTimer,            \* an interval no ref holds is running
    elapsed,                \* seconds since startTimeRef.current
    onstopPending,          \* stopped recorders whose onstop has not run
    streamRefLive,          \* the stream of the latest recording has live tracks
    contextOpen,            \* the context of audioContextRef.current is open
    leakedAudio,            \* a live stream or open context nothing releases
    songReq,                \* the search requests awaiting their response
    alertMsg,               \* the alert raised by the latest step
    \* HummingSearch: history
    songOutcome,            \* how the latest fetch ended, or "pending"
    sentMethods,            \* the method values of the requests sent
    triedSettings,          \* the positions of the AI switch at the sends
    \* the engine process
    corpusState,            \* per corpus: "unloaded", "loading" or "loaded"
    corpusRows,             \* per corpus: the rows held in memory
    corpusLoads,            \* per corpus: how many loads were started
    engPc,                  \* per worker: where it is in its request
    engQuery,               \* per worker: the query it handles
    engLog,                 \* the queries answered, with their responses
    engWaits,               \* how many requests waited for a load
    \* the scoring engine on its own
    simArgs,                \* two vectors and a scaling factor
    simOut                  \* the scores computed for them

fbVars ==
    << playId, topK, maxEventsInDescription, isLoading, queryPlay,
       similarPlays, selectedSimilarIdx, error, totalPlays, countries,
       selectedCountry, countryGoals, selectedGoalIndex, isLoadingGoals,
       queryGoal, similarGoals, selectedSimilarGoalIdx, goalError, searchMode,
       fbReq, countriesFetch, goalsFetches >>

cardVars == << cardView, cardValue, cardIsQuery, rendered >>

\* Everything that is not state of the FootballAnalysis component.
recVars ==
    << isRecording, recordingTime, micPending, mediaRecorder, timerLive,
       leakedTimer, elapsed, onstopPending, streamRefLive, contextOpen,
       leakedAudio >>

songVars ==
    << version, aiAvailable, inputMode, audioBlob, uploadedFile, resultCount,
       useAiModel, isSearching, dspResults, aiResults, searchResults, recVars,
       songReq, alertMsg, songOutcome, sentMethods, triedSettings >>

engVars ==
    << corpusState, corpusRows, corpusLoads, engPc, engQuery, engLog,
       engWaits >>

simVars == << simArgs, simOut >>

nonFbVars == << mounted, user, cardVars, songVars, engVars, simVars >>

\* Everything but the result card on its own.
nonCardVars == << mounted, user, fbVars, songVars, engVars, simVars >>

nonSongVars == << mounted, user, fbVars, cardVars, engVars, simVars >>

nonEngVars == << mounted, user, fbVars, cardVars, songVars, simVars >>

nonSimVars == << mounted, user, fbVars, cardVars, songVars, engVars >>

vars == << mounted, user, fbVars, cardVars, songVars, engVars, simVars >>

(***************************************************************************)
(* FootballAnalysis component.                                             *)
(***************************************************************************)
\* A Results select that also offers the "All" of the Events select.
TopKOptionsWithAll == << 3, 5, 10, 15, 20, 999 >>

\* Line 444: the options of the Results select.
TopKOptions == << 3, 5, 10, 15, 20 >>

MaxEventsOptions == << 3, 5, 8, 10, 15, 20, 999 >>

SeqRange(q) == { q[i] : i \in 1..Len(q) }

\* What the user leaves in the play-index field (type="number": the value
\* is "" or a valid floating-point number).
PlayIdTexts ==
    { << >>, << "0" >>, << "-", "1" >>, << ".", "5" >>,
      DecimalText(NumPlays - 1), DecimalText(NumPlays) }

(***************************************************************************)
(* The user.  A session works the play-index form with every input, or     *)
(* the goal form with every input, or both forms with a few inputs, or     *)
(* the play-index form with every option of the two selects.               *)
(***************************************************************************)
FootballUsers == { "plays", "goals", "both", "options" }

UserPlayIdTexts ==
    CASE user = "plays" -> PlayIdTexts
      [] user = "both"  -> { << "0" >>, DecimalText(NumPlays) }
      [] user = "options" -> { << "0" >> }
      [] OTHER          -> {}

\* The first and the last option of a select.
Ends(options) == { options[1], options[Len(options)] }

UserTopKPicks ==
    CASE user = "plays"   -> Ends(TopKOptions)
      [] user = "options" -> SeqRange(TopKOptions)
      [] OTHER            -> { TopKOptions[1] }

UserMaxEventsPicks ==
    CASE user = "plays"   -> Ends(MaxEventsOptions)
      [] user = "options" -> SeqRange(MaxEventsOptions)
      [] user = "goals"   -> { MaxEventsOptions[Len(MaxEventsOptions)] }
      [] OTHER            -> {}

UserCountries ==
    CASE user = "goals" -> {""} \cup SeqRange(countries)
      [] user = "both"  -> {""} \cup { countries[i] : i \in 1..Len(countries) \cap {1} }
      [] OTHER          -> {}

\* The user who works the options leaves the result cards alone.
UserClicksCards == user # "options"

MsgEnterPlayId == "Please enter a play ID"

MsgSelectGoal == "Please select a goal"

MsgConnect == "Failed to connect to server."

InitFootball ==
    /\ playId = << >>
    /\ topK = Some(5)
    /\ maxEventsInDescription = Some(5)
    /\ isLoading = FALSE
    /\ queryPlay = Null
    /\ similarPlays = << >>
    /\ selectedSimilarIdx = 0
    /\ error = Null
    /\ totalPlays = Null
    /\ countries = << >>
    /\ selectedCountry = ""
    /\ countryGoals = << >>
    /\ selectedGoalIndex = << >>
    /\ isLoadingGoals = FALSE
    /\ queryGoal = Null
    /\ similarGoals = << >>
    /\ selectedSimilarGoalIdx = 0
    /\ goalError = Null
    /\ searchMode = "play"
    /\ fbReq = Null
    /\ countriesFetch = TRUE
    /\ goalsFetches = {}

OnFootball == mounted = "FootballAnalysis"

\* useEffect on mount: the country listing arrives, or the fetch fails.
CountriesLoaded ==
    /\ OnFootball /\ countriesFetch
    /\ countriesFetch' = FALSE
    /\ \E ok \in BOOLEAN :
         countries' = IF ok THEN CountryListing ELSE countries
    /\ UNCHANGED << nonFbVars, playId, topK, maxEventsInDescription, isLoading,
                    queryPlay, similarPlays, selectedSimilarIdx, error,
                    totalPlays, selectedCountry, countryGoals,
                    selectedGoalIndex, isLoadingGoals, queryGoal, similarGoals,
                    selectedSimilarGoalIdx, goalError, searchMode, fbReq,
                    goalsFetches >>

\* onChange of the play-index field.
SetPlayId ==
    /\ OnFootball
    /\ \E t \in UserPlayIdTexts : t # playId /\ playId' = t
    /\ UNCHANGED << nonFbVars, topK, maxEventsInDescription, isLoading,
                    queryPlay, similarPlays, selectedSimilarIdx, error,
                    totalPlays, countries, selectedCountry, countryGoals,
                    selectedGoalIndex, isLoadingGoals, queryGoal, similarGoals,
                    selectedSimilarGoalIdx, goalError, searchMode, fbReq,
                    countriesFetch, goalsFetches >>

\* onChange of the Results select.
SetTopK ==
    /\ OnFootball
    /\ \E n \in UserTopKPicks : topK' = ParseInt(DecimalText(n))
    /\ topK' # topK
    /\ UNCHANGED << nonFbVars, playId, maxEventsInDescription, isLoading,
                    queryPlay, similarPlays, selectedSimilarIdx, error,
                    totalPlays, countries, selectedCountry, countryGoals,
                    selectedGoalIndex, isLoadingGoals, queryGoal, similarGoals,
                    selectedSimilarGoalIdx, goalError, searchMode, fbReq,
                    countriesFetch, goalsFetches >>

\* onChange of the Events select.
SetMaxEventsInDescription ==
    /\ OnFootball
    /\ \E n \in UserMaxEventsPicks :
         maxEventsInDescription' = ParseInt(DecimalText(n))
    /\ maxEventsInDescription' # maxEventsInDescription
    /\ UNCHANGED << nonFbVars, playId, topK, isLoading, queryPlay, similarPlays,
                    selectedSimilarIdx, error, totalPlays, countries,
                    selectedCountry, countryGoals, selectedGoalIndex,
                    isLoadingGoals, queryGoal, similarGoals,
                    selectedSimilarGoalIdx, goalError, searchMode, fbReq,
                    countriesFetch, goalsFetches >>

\* A guard on the number instead of the text: 0 is falsy.
PlayIdMissingFalsy(p) == p = << >> \/ ParseInt(p) = Null \/ ParseInt(p) = Some(0)

\* Line 214: the guard of findSimilarPlays on the text of the field.
PlayIdMissing(p) == p = << >>

\* Lines 232-236: the body of the play-search request.
PlayRequest ==
    [kind |-> "play", index |-> ParseInt(playId), top_k |-> topK,
     max_events |-> maxEventsInDescription]

\* A search that keeps the card selected in the previous result list.
SelectedIdxOnSearchKept(idx) == idx

\* Lines 223 and 268: a search selects the first card of its list.
SelectedIdxOnSearch(idx) == 0

\* Line 460: the disabled attribute of "Find Similar Plays".
FindPlaysDisabled == isLoading

\* Click on "Find Similar Plays".
FindSimilarPlays ==
    /\ OnFootball /\ ~FindPlaysDisabled
    /\ IF PlayIdMissing(playId)
       THEN /\ error' = Some(MsgEnterPlayId)
            /\ UNCHANGED << isLoading, queryPlay, similarPlays,
                            selectedSimilarIdx, queryGoal, similarGoals,
                            fbReq >>
       ELSE /\ isLoading' = TRUE
            /\ error' = Null
            /\ queryPlay' = Null
            /\ similarPlays' = << >>
            /\ selectedSimilarIdx' = SelectedIdxOnSearch(selectedSimilarIdx)
            /\ queryGoal' = Null
            /\ similarGoals' = << >>
            /\ fbReq' = Append(fbReq, PlayRequest)
    /\ UNCHANGED << nonFbVars, playId, topK, maxEventsInDescription,
                    totalPlays, countries, selectedCountry, countryGoals,
                    selectedGoalIndex, isLoadingGoals, selectedSimilarGoalIdx,
                    goalError, searchMode, countriesFetch, goalsFetches >>

\* A handler that drops the busy flag at the end of its try block only.
LoadingAfterTryOnly(thrown) == IF thrown THEN isLoading ELSE FALSE

\* Lines 253-255 and 296-298: the finally block of both searches.
LoadingAfter(thrown) == FALSE

\* Lines 241-249: what findSimilarPlays stores for the parsed body data.
PlayDataError(data) == IF Truthy(data.error) THEN data.error ELSE error

\* A handler that stores total_plays on success only.
PlayDataTotalPlaysOnSuccess(data) ==
    IF Truthy(data.error) THEN totalPlays ELSE data.total_plays

PlayDataTotalPlays(data) ==
    IF Truthy(data.error)
    THEN (IF data.total_plays # Null /\ data.total_plays[1] # 0
          THEN data.total_plays ELSE totalPlays)
    ELSE data.total_plays

\* A handler that takes the query record from the head of the list.
PlayDataQueryPlayFromList(data) ==
    IF Truthy(data.error) THEN queryPlay
    ELSE IF data.similar # << >> THEN Some(PlayRecord(data.similar[1].index))
    ELSE data.query

PlayDataQueryPlay(data) == IF Truthy(data.error) THEN queryPlay ELSE data.query

PlayDataSimilarPlays(data) ==
    IF Truthy(data.error) THEN similarPlays ELSE data.similar

\* A handler that leaves the search mode as it finds it.
PlayDataSearchModeKept(data) == searchMode

PlayDataSearchMode(data) == IF Truthy(data.error) THEN searchMode ELSE "play"

\* The fetch of findSimilarPlays settles: the body parses to data, or the
\* fetch or the parse throws.
PlayResponse ==
    /\ OnFootball
    /\ \E i \in 1..Len(fbReq), thrown \in BOOLEAN :
         /\ fbReq[i].kind = "play"
         /\ IF thrown
            THEN /\ error' = Some(MsgConnect)
                 /\ UNCHANGED << totalPlays, queryPlay, similarPlays,
                                 searchMode >>
            ELSE LET data == AnalyzePlay(fbReq[i])
                 IN  /\ error' = PlayDataError(data)
                     /\ totalPlays' = PlayDataTotalPlays(data)
                     /\ queryPlay' = PlayDataQueryPlay(data)
                     /\ similarPlays' = PlayDataSimilarPlays(data)
                     /\ searchMode' = PlayDataSearchMode(data)
         /\ isLoading' = LoadingAfter(thrown)
         /\ fbReq' = RemoveAt(fbReq, i)
    /\ UNCHANGED << nonFbVars, playId, topK, maxEventsInDescription,
                    selectedSimilarIdx, countries, selectedCountry,
                    countryGoals, selectedGoalIndex, isLoadingGoals, queryGoal,
                    similarGoals, selectedSimilarGoalIdx, goalError,
                    countriesFetch, goalsFetches >>

\* Lines 277-281: the body of the goal-search request.
GoalRequest ==
    [kind |-> "goal", index |-> ParseInt(selectedGoalIndex), top_k |-> topK,
     max_events |-> maxEventsInDescription]

\* A goal-search button that asks for a selected goal alone.
FindGoalsDisabledBySelectionOnly == selectedGoalIndex = << >>

\* Line 503: the disabled attribute of "Find Similar Goals".
FindGoalsDisabled == isLoading \/ selectedGoalIndex = << >>

\* Click on "Find Similar Goals".
FindSimilarGoals ==
    /\ OnFootball /\ ~FindGoalsDisabled
    /\ IF selectedGoalIndex = << >>
       THEN /\ goalError' = Some(MsgSelectGoal)
            /\ UNCHANGED << isLoading, queryGoal, similarGoals,
                            selectedSimilarGoalIdx, queryPlay, similarPlays,
                            fbReq >>
       ELSE /\ isLoading' = TRUE
            /\ goalError' = Null
            /\ queryGoal' = Null
            /\ similarGoals' = << >>
            /\ selectedSimilarGoalIdx' =
                 SelectedIdxOnSearch(selectedSimilarGoalIdx)
            /\ queryPlay' = Null
            /\ similarPlays' = << >>
            /\ fbReq' = Append(fbReq, GoalRequest)
    /\ UNCHANGED << nonFbVars, playId, topK, maxEventsInDescription,
                    selectedSimilarIdx, error, totalPlays, countries,
                    selectedCountry, countryGoals, selectedGoalIndex,
                    isLoadingGoals, searchMode, countriesFetch, goalsFetches >>

\* Lines 286-292: what findSimilarGoals stores for the parsed body data.
GoalDataGoalError(data) ==
    IF Truthy(data.error) THEN data.error ELSE goalError

GoalDataQueryGoal(data) == IF Truthy(data.error) THEN queryGoal ELSE data.query

GoalDataSimilarGoals(data) ==
    IF Truthy(data.error) THEN similarGoals ELSE data.similar

GoalDataSearchMode(data) == IF Truthy(data.error) THEN searchMode ELSE "goal"

\* The fetch of findSimilarGoals settles.
GoalResponse ==
    /\ OnFootball
    /\ \E i \in 1..Len(fbReq), thrown \in BOOLEAN :
         /\ fbReq[i].kind = "goal"
         /\ IF thrown
            THEN /\ goalError' = Some(MsgConnect)
                 /\ UNCHANGED << queryGoal, similarGoals, searchMode >>
            ELSE LET data == SimilarGoals(fbReq[i])
                 IN  /\ goalError' = GoalDataGoalError(data)
                     /\ queryGoal' = GoalDataQueryGoal(data)
                     /\ similarGoals' = GoalDataSimilarGoals(data)
                     /\ searchMode' = GoalDataSearchMode(data)
         /\ isLoading' = LoadingAfter(thrown)
         /\ fbReq' = RemoveAt(fbReq, i)
    /\ UNCHANGED << nonFbVars, playId, topK, maxEventsInDescription,
                    queryPlay, similarPlays, selectedSimilarIdx, error,
                    totalPlays, countries, selectedCountry, countryGoals,
                    selectedGoalIndex, isLoadingGoals, selectedSimilarGoalIdx,
                    countriesFetch, goalsFetches >>

\* useEffect on selectedCountry (lines 195-211), run when the selection
\* changes to country c: the goal list is cleared for "", fetched otherwise.
\* The listing requests in flight are kept as the set of their countries.
SetSelectedCountry ==
    /\ OnFootball
    /\ \E c \in UserCountries :
         /\ c # selectedCountry
         /\ selectedCountry' = c
         /\ IF c = ""
            THEN /\ countryGoals' = << >>
                 /\ selectedGoalIndex' = << >>
                 /\ UNCHANGED << isLoadingGoals, goalsFetches >>
            ELSE /\ isLoadingGoals' = TRUE
                 /\ goalsFetches' = goalsFetches \cup {c}
                 /\ UNCHANGED << countryGoals, selectedGoalIndex >>
    /\ UNCHANGED << nonFbVars, playId, topK, maxEventsInDescription, isLoading,
                    queryPlay, similarPlays, selectedSimilarIdx, error,
                    totalPlays, countries, queryGoal, similarGoals,
                    selectedSimilarGoalIdx, goalError, searchMode, fbReq,
                    countriesFetch >>

\* A goal-listing fetch settles (lines 204-210), in any order.
GoalsLoaded ==
    /\ OnFootball
    /\ \E c \in goalsFetches :
         /\ goalsFetches' = goalsFetches \ {c}
         /\ \E ok \in BOOLEAN :
              IF ok
              THEN /\ countryGoals' = GoalsOfCountry(c)
                   /\ selectedGoalIndex' = << >>
              ELSE UNCHANGED << countryGoals, selectedGoalIndex >>
    /\ isLoadingGoals' = FALSE
    /\ UNCHANGED << nonFbVars, playId, topK, maxEventsInDescription, isLoading,
                    queryPlay, similarPlays, selectedSimilarIdx, error,
                    totalPlays, countries, selectedCountry, queryGoal,
                    similarGoals, selectedSimilarGoalIdx, goalError,
                    searchMode, fbReq, countriesFetch >>

\* The options of the Goal select (lines 493-498): "" and one per goal.
GoalOptionValues ==
    { << >> } \cup { DecimalText(countryGoals[i].play_index) :
                       i \in 1..Len(countryGoals) }

\* onChange of the Goal select (disabled without a country or while the
\* listing loads).
SetSelectedGoalIndex ==
    /\ OnFootball /\ selectedCountry # "" /\ ~isLoadingGoals
    /\ \E v \in GoalOptionValues :
         v # selectedGoalIndex /\ selectedGoalIndex' = v
    /\ UNCHANGED << nonFbVars, playId, topK, maxEventsInDescription, isLoading,
                    queryPlay, similarPlays, selectedSimilarIdx, error,
                    totalPlays, countries, selectedCountry, countryGoals,
                    isLoadingGoals, queryGoal, similarGoals,
                    selectedSimilarGoalIdx, goalError, searchMode, fbReq,
                    countriesFetch, goalsFetches >>

\* Click on a card of the Similar Plays list (line 542).
SelectSimilarPlay ==
    /\ OnFootball /\ UserClicksCards
    /\ \E i \in 0 .. (Len(similarPlays) - 1) :
         i # selectedSimilarIdx /\ selectedSimilarIdx' = i
    /\ UNCHANGED << nonFbVars, playId, topK, maxEventsInDescription, isLoading,
                    queryPlay, similarPlays, error, totalPlays, countries,
                    selectedCountry, countryGoals, selectedGoalIndex,
                    isLoadingGoals, queryGoal, similarGoals,
                    selectedSimilarGoalIdx, goalError, searchMode, fbReq,
                    countriesFetch, goalsFetches >>

\* Click on a card of the Similar Goals list (line 566).
SelectSimilarGoal ==
    /\ OnFootball /\ UserClicksCards
    /\ \E i \in 0 .. (Len(similarGoals) - 1) :
         i # selectedSimilarGoalIdx /\ selectedSimilarGoalIdx' = i
    /\ UNCHANGED << nonFbVars, playId, topK, maxEventsInDescription, isLoading,
                    queryPlay, similarPlays, selectedSimilarIdx, error,
                    totalPlays, countries, selectedCountry, countryGoals,
                    selectedGoalIndex, isLoadingGoals, queryGoal, similarGoals,
                    goalError, searchMode, fbReq, countriesFetch,
                    goalsFetches >>

\* Click on Reset (lines 301-313; the button is rendered while a query
\* record or an error message is held), with the effect on selectedCountry.
FootballResetSearch ==
    /\ OnFootball
    /\ queryPlay # Null \/ queryGoal # Null \/ error # Null \/ goalError # Null
    /\ playId' = << >>
    /\ queryPlay' = Null
    /\ similarPlays' = << >>
    /\ selectedSimilarIdx' = 0
    /\ error' = Null
    /\ queryGoal' = Null
    /\ similarGoals' = << >>
    /\ selectedSimilarGoalIdx' = 0
    /\ goalError' = Null
    /\ selectedCountry' = ""
    /\ selectedGoalIndex' = << >>
    /\ countryGoals' = IF selectedCountry # "" THEN << >> ELSE countryGoals
    /\ UNCHANGED << nonFbVars, topK, maxEventsInDescription, isLoading,
                    totalPlays, countries, isLoadingGoals, searchMode, fbReq,
                    countriesFetch, goalsFetches >>

\* Lines 512-518: the range shown under the error message, as the pair of
\* its ends; the hint is rendered when error and totalPlays are truthy.
ErrorHintView ==
    IF Truthy(error) /\ totalPlays # Null /\ totalPlays[1] # 0
    THEN Some(<< 0, totalPlays[1] - 1 >>) ELSE Null

NextFootball ==
    \/ CountriesLoaded
    \/ SetPlayId
    \/ SetTopK
    \/ SetMaxEventsInDescription
    \/ FindSimilarPlays
    \/ PlayResponse
    \/ FindSimilarGoals
    \/ GoalResponse
    \/ SetSelectedCountry
    \/ GoalsLoaded
    \/ SetSelectedGoalIndex
    \/ SelectSimilarPlay
    \/ SelectSimilarGoal
    \/ FootballResetSearch


(***************************************************************************)
(* Result cards: the confidence band of a song match and the similarity    *)
(* band of a play or goal match.                                           *)
(***************************************************************************)
ClassHighCut == 5000

ClassMediumCut == 3000

\* part_001, ResultCard: the class name of the confidence figure.
ResultCardClass(confidence) ==
    IF confidence >= ClassHighCut THEN "high"
    ELSE IF confidence >= ClassMediumCut THEN "medium"
    ELSE "low"

ColorHighCut == 5000

ColorMediumCut == 3000

\* part_002, ResultCard: the colour of the confidence figure.
ResultCardColor(confidence) ==
    IF confidence >= ColorHighCut THEN "#10b981"
    ELSE IF confidence >= ColorMediumCut THEN "#f59e0b"
    ELSE "#ef4444"

\* App.jsx, result cards: the colour of the confidence figure.
AppCardColor(confidence) == "#10b981"

SongVersions == { "App.jsx", "part_001", "part_002" }

\* How a version of the song view marks the confidence of a result.
SongCardStyle(v, confidence) ==
    CASE v = "part_001" -> ResultCardClass(confidence)
      [] v = "part_002" -> ResultCardColor(confidence)
      [] OTHER                -> AppCardColor(confidence)

PlayHighCut == 9000

PlayMediumCut == 7000

\* A classification with the high cut point excluded.
PlaySimilarityClassStrict(similarity) ==
    IF similarity # Null /\ similarity[1] > PlayHighCut THEN "high"
    ELSE IF similarity # Null /\ similarity[1] >= PlayMediumCut THEN "medium"
    ELSE "low"

\* PlayCard: similarityClass; undefined >= 0.9 is false.
PlaySimilarityClass(similarity) ==
    IF similarity # Null /\ similarity[1] >= PlayHighCut THEN "high"
    ELSE IF similarity # Null /\ similarity[1] >= PlayMediumCut THEN "medium"
    ELSE "low"

\* PlayCard: the similarity badge, rendered unless the card is the query
\* card or the record has no similarity.
PlayCardBadge(similarity, isQuery) ==
    IF ~isQuery /\ similarity # Null
    THEN Some(PlaySimilarityClass(similarity)) ELSE Null

GoalHighCut == 9000

GoalMediumCut == 7000

\* GoalCard: similarityClass.
GoalSimilarityClass(similarity) ==
    IF similarity # Null /\ similarity[1] >= GoalHighCut THEN "high"
    ELSE IF similarity # Null /\ similarity[1] >= GoalMediumCut THEN "medium"
    ELSE "low"

\* GoalCard: the similarity badge.
GoalCardBadge(similarity, isQuery) ==
    IF ~isQuery /\ similarity # Null
    THEN Some(GoalSimilarityClass(similarity)) ELSE Null

FootballCards == { "PlayCard", "GoalCard" }

\* The scores a card is rendered with: every tenth of a percent, and the
\* scores next to one.
CardScores == { n \in 0..SimScale : n % 10 \in {0, 1, 9} }

NegativeScores == { -(n * 1000) : n \in 1..10 }

InitNoCard ==
    /\ cardView = "" /\ cardValue = Null /\ cardIsQuery = FALSE
    /\ rendered = Null

InitCard ==
    /\ rendered = Null
    /\ \/ /\ cardView \in SongVersions
          /\ cardValue \in { Some(n) : n \in CardScores }
          /\ cardIsQuery = FALSE
       \/ /\ cardView \in FootballCards
          /\ cardValue \in {Null} \cup { Some(n) : n \in CardScores \cup NegativeScores }
          /\ cardIsQuery \in BOOLEAN

\* A song result card is rendered.
RenderSongCard ==
    /\ mounted = "card" /\ cardView \in SongVersions /\ rendered = Null
    /\ rendered' = Some(SongCardStyle(cardView, cardValue[1]))
    /\ UNCHANGED << nonCardVars, cardView, cardValue, cardIsQuery >>

\* A play card is rendered.
RenderPlayCard ==
    /\ mounted = "card" /\ cardView = "PlayCard" /\ rendered = Null
    /\ rendered' = Some(PlayCardBadge(cardValue, cardIsQuery))
    /\ UNCHANGED << nonCardVars, cardView, cardValue, cardIsQuery >>

\* A goal card is rendered.
RenderGoalCard ==
    /\ mounted = "card" /\ cardView = "GoalCard" /\ rendered = Null
    /\ rendered' = Some(GoalCardBadge(cardValue, cardIsQuery))
    /\ UNCHANGED << nonCardVars, cardView, cardValue, cardIsQuery >>

NextCards == RenderSongCard \/ RenderPlayCard \/ RenderGoalCard


(***************************************************************************)
(* HummingSearch component, in its three versions: App.jsx (record only,   *)
(* one result list), part_002 and part_001 (record or upload, result       *)
(* count, comparison with the AI model).                                   *)
(***************************************************************************)
OnSong == mounted = "HummingSearch"

IsApp == version = "App.jsx"

MinRecordingSeconds == 10

MaxRecordingTime == 11

MaxPending == 1

ResultCountOptions == << 1, 2, 3, 4, 5 >>

MsgMicrophone == "Please allow microphone access to use this feature"

MsgMinRecording == "Please record at least 10 seconds."

MsgInvalidFile == "Please upload a valid audio file"

MsgNoResults == "No results found."

MsgSongConnect == "Failed to connect to server."

\* useState(...) of every version; a version without a piece of state keeps
\* the value given here throughout.
InitSong ==
    /\ inputMode = "record"
    /\ isRecording = FALSE
    /\ audioBlob = Null
    /\ uploadedFile = Null
    /\ resultCount = 5
    /\ useAiModel = FALSE
    /\ isSearching = FALSE
    /\ dspResults = << >>
    /\ aiResults = << >>
    /\ searchResults = [length |-> Some(0), body |-> Null]
    /\ recordingTime = 0
    /\ micPending = 0
    /\ mediaRecorder = "none"
    /\ timerLive = FALSE
    /\ leakedTimer = FALSE
    /\ elapsed = 0
    /\ onstopPending = 0
    /\ streamRefLive = FALSE
    /\ contextOpen = FALSE
    /\ leakedAudio = FALSE
    /\ songReq = Null
    /\ alertMsg = Null
    /\ songOutcome = ""
    /\ sentMethods = {}
    /\ triedSettings = {}

\* What the user hands to the file input: an audio file, or a file that is
\* not audio, or nothing.
FileChoices == AudioKinds \cup { "not audio", "no file" }

(***************************************************************************)
(* The user of the song view.  A session hums and searches, or uploads     *)
(* files of every kind and works the mode toggle, or uploads a tune and    *)
(* works the options, or clicks the record button again before the         *)
(* microphone has answered, works the mode toggle and never searches.      *)
(* App.jsx offers the controls of those who record only.                   *)
(***************************************************************************)
SongUsers == { "hummer", "uploader", "tuner", "clicker" }

RecordingUsers == { "hummer", "clicker" }

UserModes ==
    CASE user \in { "uploader", "clicker" } -> { "record", "upload" }
      [] user = "tuner"    -> { "upload" }
      [] OTHER             -> {}

UserFileChoices ==
    CASE user = "uploader" -> FileChoices
      [] user = "tuner"    -> { "tune" }
      [] OTHER             -> {}

UserHums == user \in RecordingUsers

UserSearches == user # "clicker"

\* How many getUserMedia calls the user leaves unanswered at a time.
PendingBound == IF user = "clicker" THEN MaxPending + 1 ELSE MaxPending

UserResultCounts ==
    IF user = "tuner" THEN SeqRange(ResultCountOptions) ELSE {}

\* hasAudio: the audio source of the current input mode.
AudioSource == IF inputMode = "record" THEN audioBlob ELSE uploadedFile

\* Click on the record button while it reads "TAP TO HUM": startRecording
\* up to its await.
StartRecording ==
    /\ OnSong /\ inputMode = "record" /\ audioBlob = Null /\ ~isRecording
    /\ UserHums /\ micPending < PendingBound
    /\ micPending' = micPending + 1
    /\ alertMsg' = Null
    /\ UNCHANGED << nonSongVars, version, aiAvailable, inputMode, audioBlob,
                    uploadedFile, resultCount, useAiModel, isSearching,
                    dspResults, aiResults, searchResults, isRecording,
                    recordingTime, mediaRecorder, timerLive, leakedTimer,
                    elapsed, onstopPending, streamRefLive, contextOpen,
                    leakedAudio, songReq, songOutcome, sentMethods,
                    triedSettings >>

\* The component is on screen, or was: work it started goes on.
SongRuns == mounted \in { "HummingSearch", "unmounted" }

\* The stream that a new stream replaces stays live for good: the later
\* versions reach a stream through streamRef only; in App.jsx the onstop of
\* a recorder stops the recorder's own stream, and a recorder that is
\* replaced while it records is never stopped.
OverwrittenStreamLeaks ==
    streamRefLive /\ (~IsApp \/ mediaRecorder = "recording")

\* getUserMedia settles: the rest of startRecording, or its catch.
MicrophoneAnswered ==
    /\ SongRuns /\ micPending > 0
    /\ micPending' = micPending - 1
    /\ \E granted \in BOOLEAN :
         IF granted
         THEN /\ mediaRecorder' = "recording"
              /\ isRecording' = TRUE
              /\ recordingTime' = 0
              /\ elapsed' = IF IsApp THEN elapsed ELSE 0
              /\ timerLive' = TRUE
              /\ leakedTimer' = (leakedTimer \/ timerLive)
              /\ streamRefLive' = TRUE
              /\ contextOpen' = TRUE
              /\ leakedAudio' = (leakedAudio \/ contextOpen
                                   \/ OverwrittenStreamLeaks)
              /\ alertMsg' = Null
         ELSE /\ alertMsg' = Some(MsgMicrophone)
              /\ UNCHANGED << mediaRecorder, isRecording, recordingTime,
                              elapsed, timerLive, leakedTimer, streamRefLive,
                              contextOpen, leakedAudio >>
    /\ UNCHANGED << nonSongVars, version, aiAvailable, inputMode, audioBlob,
                    uploadedFile, resultCount, useAiModel, isSearching,
                    dspResults, aiResults, searchResults, onstopPending,
                    songReq, songOutcome, sentMethods, triedSettings >>

\* A second passes while an interval runs.  App.jsx counts the callbacks;
\* the later versions show the seconds since startTimeRef.
TimerTick ==
    /\ SongRuns /\ (timerLive \/ leakedTimer)
    /\ IF IsApp
       THEN /\ recordingTime < MaxRecordingTime
            /\ recordingTime' = recordingTime + 1
            /\ UNCHANGED elapsed
       ELSE /\ elapsed < MaxRecordingTime
            /\ elapsed' = elapsed + 1
            /\ recordingTime' = elapsed + 1
    /\ alertMsg' = Null
    /\ UNCHANGED << nonSongVars, version, aiAvailable, inputMode, audioBlob,
                    uploadedFile, resultCount, useAiModel, isSearching,
                    dspResults, aiResults, searchResults, isRecording,
                    micPending, mediaRecorder, timerLive, leakedTimer,
                    onstopPending, streamRefLive, contextOpen, leakedAudio,
                    songReq, songOutcome, sentMethods, triedSettings >>

\* The later versions refuse to stop a recording shorter than 10 seconds.
TooShort(t) == ~IsApp /\ t < MinRecordingSeconds

\* Click on the record button while it reads STOP or FINISH: stopRecording.
StopRecording ==
    /\ OnSong /\ inputMode = "record" /\ audioBlob = Null /\ isRecording
    /\ mediaRecorder # "none"
    /\ IF TooShort(recordingTime)
       THEN /\ alertMsg' = Some(MsgMinRecording)
            /\ UNCHANGED << isRecording, mediaRecorder, timerLive,
                            onstopPending, contextOpen >>
       ELSE /\ onstopPending < MaxPending
            /\ timerLive' = FALSE
            /\ contextOpen' = FALSE
            /\ mediaRecorder' = "inactive"
            /\ onstopPending' = onstopPending + 1
            /\ isRecording' = FALSE
            /\ alertMsg' = Null
    /\ UNCHANGED << nonSongVars, version, aiAvailable, inputMode, audioBlob,
                    uploadedFile, resultCount, useAiModel, isSearching,
                    dspResults, aiResults, searchResults, recordingTime,
                    micPending, leakedTimer, elapsed, streamRefLive,
                    leakedAudio, songReq, songOutcome, sentMethods,
                    triedSettings >>

\* Whether the onstop that runs stops the tracks of the latest stream: the
\* later versions stop streamRef.current; App.jsx stops the recorder's own
\* stream, which is not the latest one when a new recording has started
\* since the stop.
OnstopStopsLatest ==
    CASE ~IsApp                      -> { TRUE }
      [] mediaRecorder = "recording" -> { FALSE }
      [] onstopPending > 1           -> BOOLEAN
      [] OTHER                       -> { TRUE }

\* onstop of a stopped recorder: the recording becomes the audio blob and
\* the tracks of a stream are stopped.
RecorderStopped ==
    /\ SongRuns /\ onstopPending > 0
    /\ onstopPending' = onstopPending - 1
    /\ \E kind \in AudioKinds : audioBlob' = Some(kind)
    /\ \E latest \in OnstopStopsLatest :
         streamRefLive' = IF latest THEN FALSE ELSE streamRefLive
    /\ alertMsg' = Null
    /\ UNCHANGED << nonSongVars, version, aiAvailable, inputMode,
                    uploadedFile, resultCount, useAiModel, isSearching,
                    dspResults, aiResults, searchResults, isRecording,
                    recordingTime, micPending, mediaRecorder, timerLive,
                    leakedTimer, elapsed, contextOpen, leakedAudio, songReq,
                    songOutcome, sentMethods, triedSettings >>

\* handleFileSelect, from the file input or a drop on the dropzone.
HandleFileSelect ==
    /\ OnSong /\ ~IsApp /\ inputMode = "upload"
    /\ \E file \in UserFileChoices :
         IF file \in AudioKinds
         THEN /\ uploadedFile' = Some(file)
              /\ uploadedFile' # uploadedFile
              /\ alertMsg' = Null
         ELSE /\ alertMsg' = Some(MsgInvalidFile)
              /\ UNCHANGED uploadedFile
    /\ UNCHANGED << nonSongVars, version, aiAvailable, inputMode, audioBlob,
                    resultCount, useAiModel, isSearching, dspResults,
                    aiResults, searchResults, recVars, songReq,
                    songOutcome, sentMethods, triedSettings >>

\* Click on a button of the mode toggle: setInputMode and resetSearch.
SetInputMode ==
    /\ OnSong /\ ~IsApp
    /\ \E m \in UserModes : inputMode' = m
    /\ audioBlob' = Null
    /\ uploadedFile' = Null
    /\ dspResults' = << >>
    /\ aiResults' = << >>
    /\ recordingTime' = 0
    /\ alertMsg' = Null
    /\ UNCHANGED << nonSongVars, version, aiAvailable, resultCount,
                    useAiModel, isSearching, searchResults, isRecording,
                    micPending, mediaRecorder, timerLive, leakedTimer,
                    elapsed, onstopPending, streamRefLive, contextOpen,
                    leakedAudio, songReq, songOutcome, sentMethods,
                    triedSettings >>

\* "Record Again" of part_001, the double click of part_002.
RecordAgain ==
    /\ OnSong /\ ~IsApp /\ inputMode = "record" /\ audioBlob # Null
    /\ audioBlob' = Null
    /\ alertMsg' = Null
    /\ UNCHANGED << nonSongVars, version, aiAvailable, inputMode,
                    uploadedFile, resultCount, useAiModel, isSearching,
                    dspResults, aiResults, searchResults, recVars, songReq,
                    songOutcome, sentMethods, triedSettings >>

\* onChange of the Results select.
SetResultCount ==
    /\ OnSong /\ ~IsApp
    /\ \E n \in UserResultCounts :
         resultCount' = ParseInt(DecimalText(n))[1]
    /\ resultCount' # resultCount
    /\ alertMsg' = Null
    /\ UNCHANGED << nonSongVars, version, aiAvailable, inputMode, audioBlob,
                    uploadedFile, useAiModel, isSearching, dspResults,
                    aiResults, searchResults, recVars, songReq,
                    songOutcome, sentMethods, triedSettings >>

\* Click on the "Compare with AI Model" switch.
ToggleUseAiModel ==
    /\ OnSong /\ ~IsApp
    /\ useAiModel' = ~useAiModel
    /\ alertMsg' = Null
    /\ UNCHANGED << nonSongVars, version, aiAvailable, inputMode, audioBlob,
                    uploadedFile, resultCount, isSearching, dspResults,
                    aiResults, searchResults, recVars, songReq,
                    songOutcome, sentMethods, triedSettings >>

\* The method field of the form: absent in App.jsx.
RequestMethod ==
    IF IsApp THEN Null ELSE Some(IF useAiModel THEN "both" ELSE "dsp")

\* The top_n field of the form: absent in App.jsx.
RequestTopN == IF IsApp THEN Null ELSE Some(DecimalText(resultCount))

\* The form posted by searchSong.
SongRequest ==
    [audio |-> AudioSource[1], method |-> RequestMethod,
     top_n |-> RequestTopN]

\* A search button that asks for audio alone.
SearchDisabledWithoutAudioOnly == AudioSource = Null

\* The disabled attribute of the search button (App.jsx renders the button
\* once a recording is held).
SearchDisabled == AudioSource = Null \/ isSearching

\* Click on the search button.
SearchSong ==
    /\ OnSong /\ ~SearchDisabled /\ UserSearches
    /\ isSearching' = TRUE
    /\ dspResults' = << >>
    /\ aiResults' = << >>
    /\ songReq' = Append(songReq, SongRequest)
    /\ songOutcome' = "pending"
    /\ sentMethods' = sentMethods \cup
                        { IF RequestMethod = Null THEN "" ELSE RequestMethod[1] }
    /\ triedSettings' = triedSettings \cup { useAiModel }
    /\ alertMsg' = Null
    /\ UNCHANGED << nonSongVars, version, aiAvailable, inputMode, audioBlob,
                    uploadedFile, resultCount, useAiModel, searchResults,
                    recVars >>

\* The boundary's reading of the form: a field the form lacks is filled in
\* by the boundary, with a value this model does not fix.
MethodsOf(req) == IF req.method = Null THEN Methods ELSE { req.method[1] }

TopNsOf(req) ==
    IF req.top_n = Null THEN SongTopNs
    ELSE { ParseInt(req.top_n[1])[1] }

\* A handler that takes an empty AI list for a failed search.
SongDataDspResultsNeedsAi(data) ==
    IF Truthy(data.dsp) /\ Truthy(data.ai) /\ Len(data.ai[1]) > 0
    THEN data.dsp[1] ELSE dspResults

\* A handler that shows the two lists as one.
SongDataDspResultsMerged(data) ==
    IF Truthy(data.dsp)
    THEN data.dsp[1] \o (IF Truthy(data.ai) THEN data.ai[1] ELSE << >>)
    ELSE dspResults

\* What searchSong of the later versions stores for the parsed body data.
SongDataDspResults(data) ==
    IF Truthy(data.dsp) THEN data.dsp[1] ELSE dspResults

SongDataAiResults(data) ==
    IF Truthy(data.ai) THEN data.ai[1] ELSE aiResults

\* part_001 alone tells the user that both lists came back empty.
SongDataAlert(data) ==
    IF /\ version = "part_001"
       /\ (~Truthy(data.dsp) \/ Len(data.dsp[1]) = 0)
       /\ (~Truthy(data.ai) \/ Len(data.ai[1]) = 0)
    THEN Some(MsgNoResults) ELSE Null

\* The finally block of searchSong.
SearchingAfter(thrown) == FALSE

\* The fetch of searchSong settles: the body parses to data, or the fetch
\* fails, the status is not ok, or the parse throws.
SongResponse ==
    /\ SongRuns
    /\ \E i \in 1..Len(songReq), thrown \in BOOLEAN :
         /\ IF thrown
            THEN /\ alertMsg' = Some(MsgSongConnect)
                 /\ songOutcome' = "failed"
                 /\ UNCHANGED << dspResults, aiResults, searchResults >>
            ELSE \E m \in MethodsOf(songReq[i]), k \in TopNsOf(songReq[i]) :
                   LET data ==
                         SearchSongs(songReq[i].audio, m, k, aiAvailable)
                   IN  /\ songOutcome' = "answered"
                       /\ IF IsApp
                          THEN /\ searchResults' =
                                    [length |-> Null, body |-> Some(data)]
                               /\ alertMsg' = Null
                               /\ UNCHANGED << dspResults, aiResults >>
                          ELSE /\ dspResults' = SongDataDspResults(data)
                               /\ aiResults' = SongDataAiResults(data)
                               /\ alertMsg' = SongDataAlert(data)
                               /\ UNCHANGED searchResults
         /\ isSearching' = SearchingAfter(thrown)
         /\ songReq' = RemoveAt(songReq, i)
    /\ UNCHANGED << nonSongVars, version, aiAvailable, inputMode, audioBlob,
                    uploadedFile, resultCount, useAiModel, recVars,
                    sentMethods, triedSettings >>

\* Click on "Reset" or "TRY AGAIN" (rendered with audio, disabled while
\* searching): resetSearch.
SongResetSearch ==
    /\ OnSong /\ AudioSource # Null /\ ~isSearching
    /\ audioBlob' = Null
    /\ uploadedFile' = Null
    /\ dspResults' = << >>
    /\ aiResults' = << >>
    /\ searchResults' = IF IsApp THEN [length |-> Some(0), body |-> Null]
                        ELSE searchResults
    /\ recordingTime' = 0
    /\ alertMsg' = Null
    /\ UNCHANGED << nonSongVars, version, aiAvailable, inputMode, resultCount,
                    useAiModel, isSearching, isRecording, micPending,
                    mediaRecorder, timerLive, leakedTimer, elapsed,
                    onstopPending, streamRefLive, contextOpen, leakedAudio,
                    songReq, songOutcome, sentMethods, triedSettings >>

\* Cards numbered by the position in the array.
ResultCardsZeroBased(list) ==
    [j \in 1..Len(list) |->
       [song |-> list[j], rank |-> j - 1,
        style |-> SongCardStyle(version, list[j].confidence)]]

\* The result cards of one list, in the order of the map over the list:
\* position i of the array is the card of rank i + 1.
ResultCards(list) ==
    [j \in 1..Len(list) |->
       [song |-> list[j], rank |-> (j - 1) + 1,
        style |-> SongCardStyle(version, list[j].confidence)]]

\* The results section of the later versions: the two columns in comparison
\* mode, the DSP list alone otherwise; nothing while both lists are empty.
ResultsSection ==
    IF Len(dspResults) > 0 \/ Len(aiResults) > 0
    THEN [dsp |-> ResultCards(dspResults),
          ai  |-> IF useAiModel THEN ResultCards(aiResults) ELSE << >>]
    ELSE [dsp |-> << >>, ai |-> << >>]

\* The similar-plays and similar-goals lists of FootballAnalysis, in the
\* order of the map over the list.
SimilarPlayCards ==
    [j \in 1..Len(similarPlays) |->
       [play |-> similarPlays[j], key |-> j - 1,
        badge |-> PlayCardBadge(Some(similarPlays[j].similarity), FALSE),
        isSelected |-> (j - 1 = selectedSimilarIdx)]]

SimilarGoalCards ==
    [j \in 1..Len(similarGoals) |->
       [goal |-> similarGoals[j], key |-> j - 1,
        badge |-> GoalCardBadge(Some(similarGoals[j].similarity), FALSE),
        isSelected |-> (j - 1 = selectedSimilarGoalIdx)]]

\* The animation-frame loop of updateAudioLevel is started, cancelled and
\* left behind together with the interval of the timer.
FrameLive == timerLive

LeakedFrame == leakedTimer

\* The component unmounts: the cleanup of the effect.  App.jsx clears the
\* interval and the animation frame; the later versions also stop the
\* tracks of streamRef.current and close the audio context.
Unmount ==
    /\ OnSong
    /\ mounted' = "unmounted"
    /\ timerLive' = FALSE
    /\ streamRefLive' = IF IsApp THEN streamRefLive ELSE FALSE
    /\ contextOpen' = IF IsApp THEN contextOpen ELSE FALSE
    /\ alertMsg' = Null
    /\ UNCHANGED << user, fbVars, cardVars, engVars, simVars, version,
                    aiAvailable, inputMode, audioBlob, uploadedFile,
                    resultCount, useAiModel, isSearching, dspResults,
                    aiResults, searchResults, isRecording, recordingTime,
                    micPending, mediaRecorder, leakedTimer, elapsed,
                    onstopPending, leakedAudio, songReq, songOutcome,
                    sentMethods, triedSettings >>

NextSong ==
    \/ StartRecording
    \/ MicrophoneAnswered
    \/ TimerTick
    \/ StopRecording
    \/ RecorderStopped
    \/ HandleFileSelect
    \/ SetInputMode
    \/ RecordAgain
    \/ SetResultCount
    \/ ToggleUseAiModel
    \/ SearchSong
    \/ SongResponse
    \/ SongResetSearch

(***************************************************************************)
(* The engine process (specification sections 4.4, 4.5, 5 and 7): workers  *)
(* that answer queries against the two corpora.  A corpus is read from its *)
(* static input by the first request that needs it; the test and the start *)
(* of the load are one step, and requests that arrive during the load      *)
(* wait for it.  A query is a record with the fields corpus, index or      *)
(* audio, and k.                                                           *)
(***************************************************************************)
NumWorkers == 2

MaxServed == 3

Workers == 1..NumWorkers

Corpora == { "plays", "songs" }

\* The static input of a corpus.
CorpusInput(c) ==
    IF c = "plays" THEN SubSeq(PlayEmbeddings, 1, NumPlays)
    ELSE SubSeq(SongDspVectors, 1, NumSongs)

\* The queries sent to the engine: a play whose candidates tie, the index
\* past the corpus, a tune and a silent recording.
EngineQueries ==
    { [corpus |-> "plays", index |-> i, k |-> 3] : i \in { 1, NumPlays } }
    \cup { [corpus |-> "songs", audio |-> a, k |-> 2] : a \in AudioKinds }

EngineRowIndices(rows) == 0 .. (Len(rows) - 1)

\* 4.5 (a) over the rows held.
EnginePlayAnswer(q, rows) ==
    IF ~(0 <= q.index /\ q.index < Len(rows))
    THEN [error |-> Some(ErrIndexOutOfRange), total |-> Len(rows),
          list |-> << >>]
    ELSE [error |-> Null, total |-> Len(rows),
          list |-> Rank({ [index |-> i,
                           similarity |->
                             CosineSimilarity(rows[q.index + 1], rows[i + 1])] :
                          i \in EngineRowIndices(rows) \ { q.index } }, q.k)]

\* The song path with the DSP method over the rows held; audio the
\* extractor cannot process gives no results.
EngineSongAnswer(q, rows) ==
    LET f == DspFeatures(q.audio)
    IN  [error |-> Null, total |-> Len(rows),
         list |-> IF f = Null THEN << >>
                  ELSE Rank({ [index |-> i,
                               similarity |->
                                 CosineSimilarity(f[1], rows[i + 1][1])] :
                              i \in { j \in EngineRowIndices(rows) :
                                        rows[j + 1] # Null } }, q.k)]

EngineAnswer(q, rows) ==
    IF q.corpus = "plays" THEN EnginePlayAnswer(q, rows)
    ELSE EngineSongAnswer(q, rows)

\* A request that failed, or found nothing to rank.
EngineFailed(resp) == resp.error # Null \/ resp.list = << >>

\* A load started by every request that finds the corpus not yet loaded.
EngineMustLoadUnguarded(c) == corpusState[c] # "loaded"

\* 5: the guard of the corpus load.
EngineMustLoad(c) == corpusState[c] = "unloaded"

\* A request handler that drops the last row when its request fails.
EngineRowsAfterDropOnFailure(q, rows) ==
    IF EngineFailed(EngineAnswer(q, rows)) /\ rows # << >>
    THEN SubSeq(rows, 1, Len(rows) - 1) ELSE rows

\* 5: no request mutates the corpus.
EngineRowsAfter(q, rows) == rows

InitEngine ==
    /\ corpusState = [c \in Corpora |-> "unloaded"]
    /\ corpusRows = [c \in Corpora |-> << >>]
    /\ corpusLoads = [c \in Corpora |-> 0]
    /\ engPc = [w \in Workers |-> "idle"]
    /\ engQuery = [w \in Workers |-> Null]
    /\ engLog = << >>
    /\ engWaits = 0

OnEngine == mounted = "engine"

\* A worker receives a query.
EngineReceive(w) ==
    /\ OnEngine /\ engPc[w] = "idle"
    /\ Len(engLog) + Cardinality({ v \in Workers : engPc[v] # "idle" })
         < MaxServed
    /\ \E q \in EngineQueries :
         /\ engQuery' = [engQuery EXCEPT ![w] = Some(q)]
         /\ IF EngineMustLoad(q.corpus)
            THEN /\ corpusState' = [corpusState EXCEPT ![q.corpus] = "loading"]
                 /\ corpusLoads' =
                      [corpusLoads EXCEPT ![q.corpus] = corpusLoads[q.corpus] + 1]
                 /\ engPc' = [engPc EXCEPT ![w] = "loading"]
                 /\ UNCHANGED engWaits
            ELSE /\ IF corpusState[q.corpus] = "loading"
                    THEN /\ engPc' = [engPc EXCEPT ![w] = "waiting"]
                         /\ engWaits' = engWaits + 1
                    ELSE /\ engPc' = [engPc EXCEPT ![w] = "ready"]
                         /\ UNCHANGED engWaits
                 /\ UNCHANGED << corpusState, corpusLoads >>
    /\ UNCHANGED << nonEngVars, corpusRows, engLog >>

\* The load a worker started completes.
EngineLoaded(w) ==
    /\ OnEngine /\ engPc[w] = "loading"
    /\ LET c == engQuery[w][1].corpus
       IN  /\ corpusRows' = [corpusRows EXCEPT ![c] = CorpusInput(c)]
           /\ corpusState' = [corpusState EXCEPT ![c] = "loaded"]
    /\ engPc' = [engPc EXCEPT ![w] = "ready"]
    /\ UNCHANGED << nonEngVars, corpusLoads, engQuery, engLog, engWaits >>

\* A waiting worker finds its corpus loaded.
EngineResumes(w) ==
    /\ OnEngine /\ engPc[w] = "waiting"
    /\ corpusState[engQuery[w][1].corpus] = "loaded"
    /\ engPc' = [engPc EXCEPT ![w] = "ready"]
    /\ UNCHANGED << nonEngVars, corpusState, corpusRows, corpusLoads,
                    engQuery, engLog, engWaits >>

\* A worker answers its query from the rows held.
EngineServes(w) ==
    /\ OnEngine /\ engPc[w] = "ready"
    /\ LET q == engQuery[w][1]
           c == q.corpus
       IN  /\ engLog' = Append(engLog, << q, EngineAnswer(q, corpusRows[c]) >>)
           /\ corpusRows' =
                [corpusRows EXCEPT ![c] = EngineRowsAfter(q, corpusRows[c])]
    /\ engPc' = [engPc EXCEPT ![w] = "idle"]
    /\ engQuery' = [engQuery EXCEPT ![w] = Null]
    /\ UNCHANGED << nonEngVars, corpusState, corpusLoads, engWaits >>

NextEngine ==
    \/ \E w \in Workers : EngineReceive(w)
    \/ \E w \in Workers : EngineLoaded(w)
    \/ \E w \in Workers : EngineResumes(w)
    \/ \E w \in Workers : EngineServes(w)

(***************************************************************************)
(* The scoring engine on its own: one pair of vectors of the same          *)
(* dimension and a positive factor, scored once.                           *)
(***************************************************************************)
MaxCoord == 2

MaxFactor == 3

SimVectors(n) == [1..n -> (-MaxCoord)..MaxCoord]

Scaled(k, a) == [i \in 1..Len(a) |-> k * a[i]]

InitNoSim == simArgs = Null /\ simOut = Null

InitSim ==
    /\ \E n \in { 1, 2 } :
         \E a \in SimVectors(n), b \in SimVectors(n), k \in 1..MaxFactor :
            simArgs = Some([a |-> a, b |-> b, k |-> k])
    /\ simOut = Null

\* The scores of the pair, of each vector with itself, and of the pair with
\* either vector scaled.
ScorePair ==
    /\ mounted = "scoring" /\ simArgs # Null /\ simOut = Null
    /\ LET a == simArgs[1].a
           b == simArgs[1].b
           k == simArgs[1].k
       IN  simOut' = Some([ab |-> CosineSimilarity(a, b),
                           ba |-> CosineSimilarity(b, a),
                           aa |-> CosineSimilarity(a, a),
                           scaledLeft  |-> CosineSimilarity(Scaled(k, a), b),
                           scaledRight |-> CosineSimilarity(a, Scaled(k, b))])
    /\ UNCHANGED << nonSimVars, simArgs >>

NextScoring == ScorePair

(***************************************************************************)
(* Specifications                                                          *)
(***************************************************************************)
\* The football view is on screen, operated by one of the users.
InitSpecFootball ==
    /\ mounted = "FootballAnalysis" /\ user \in FootballUsers
    /\ InitFootball /\ InitNoCard /\ InitEngine /\ InitNoSim
    /\ version = "part_001" /\ aiAvailable = TRUE /\ InitSong

SpecFootball == InitSpecFootball /\ [][NextFootball]_vars

\* One result card, rendered once.
InitSpecCards ==
    /\ mounted = "card" /\ user = ""
    /\ InitCard /\ InitFootball /\ InitEngine /\ InitNoSim
    /\ version = "part_001" /\ aiAvailable = TRUE /\ InitSong

SpecCards == InitSpecCards /\ [][NextCards]_vars

\* The song view is on screen in one of its versions, the engine with or
\* without the AI model.
InitSpecSong ==
    /\ mounted = "HummingSearch"
    /\ version \in SongVersions /\ aiAvailable \in BOOLEAN
    /\ user \in (IF IsApp THEN RecordingUsers ELSE SongUsers)
    /\ InitSong /\ InitFootball /\ InitNoCard /\ InitEngine /\ InitNoSim

SpecSong == InitSpecSong /\ [][NextSong]_vars

\* Either view is on screen.
InitSpecUI == InitSpecSong \/ InitSpecFootball

NextUI == NextSong \/ NextFootball

SpecUI == InitSpecUI /\ [][NextUI]_vars

\* The engine process, with the views at rest.
InitSpecEngine ==
    /\ mounted = "engine" /\ user = ""
    /\ InitEngine /\ InitFootball /\ InitNoCard /\ InitNoSim
    /\ version = "part_001" /\ aiAvailable = TRUE /\ InitSong

SpecEngine == InitSpecEngine /\ [][NextEngine]_vars

\* The scoring engine on its own.
InitSpecScoring ==
    /\ mounted = "scoring" /\ user = ""
    /\ InitSim /\ InitEngine /\ InitFootball /\ InitNoCard
    /\ version = "part_001" /\ aiAvailable = TRUE /\ InitSong

SpecScoring == InitSpecScoring /\ [][NextScoring]_vars

\* The song view, until after it is taken off screen.
InitSpecLifecycle == InitSpecSong

NextLifecycle == NextSong \/ Unmount

SpecLifecycle == InitSpecLifecycle /\ [][NextLifecycle]_vars

(***************************************************************************)
(* Properties                                                              *)
(***************************************************************************)
\* The band a style of the confidence figure stands for: the class names of
\* part_001, the colours of part_002.
BandOfStyle(style) ==
    CASE style \in { "high", "#10b981" }   -> "high"
      [] style \in { "medium", "#f59e0b" } -> "medium"
      [] style \in { "low", "#ef4444" }    -> "low"

\* C1: in every version of the song result view a rendered result with
\* confidence c is marked high iff c >= 0.5, medium iff 0.3 <= c < 0.5 and
\* low iff c < 0.3.
C1_SongBands ==
    (rendered # Null /\ cardView \in SongVersions) =>
        LET c    == cardValue[1]
            band == BandOfStyle(rendered[1])
        IN  /\ (band = "high") <=> (c >= 5000)
            /\ (band = "medium") <=> (3000 <= c /\ c < 5000)
            /\ (band = "low") <=> (c < 3000)

\* C2: a play card and a goal card that display a similarity s show the
\* band high iff s >= 0.9, medium iff 0.7 <= s < 0.9 and low iff s < 0.7,
\* and both cards show the same badge for the same props.
C2_FootballBands ==
    /\ (rendered # Null /\ cardView \in FootballCards /\ rendered[1] # Null) =>
          LET s    == cardValue[1]
              band == rendered[1][1]
          IN  /\ (band = "high") <=> (s >= 9000)
              /\ (band = "medium") <=> (7000 <= s /\ s < 9000)
              /\ (band = "low") <=> (s < 7000)
    /\ (rendered # Null /\ cardView \in FootballCards) =>
          /\ rendered[1] = PlayCardBadge(cardValue, cardIsQuery)
          /\ rendered[1] = GoalCardBadge(cardValue, cardIsQuery)

\* A play card rendered with similarity 0.9 shows the band high.
C2_Witness ==
    /\ cardView = "PlayCard" /\ cardValue = Some(9000)
    /\ rendered = Some(Some("high"))

\* The play search answered by the step, when the fetch did not throw.
PlayAnswer == AnalyzePlay(fbReq[1])

\* A step in which the response of a play search is handled.
PlayResponseStep ==
    fbReq # Null /\ fbReq[1].kind = "play" /\ fbReq' = Null

\* A step in which the response of a song search is handled.
SongResponseStep == songReq # Null /\ songReq' = Null

\* The answer of the engine to the request of the later versions that the
\* step handles.
SongAnswer ==
    SearchSongs(songReq[1].audio, songReq[1].method[1],
                ParseInt(songReq[1].top_n[1])[1], aiAvailable)

\* Descending score, equal scores by ascending corpus index.
SongsInOrder(list) ==
    \A i, j \in 1..Len(list) :
        i < j => \/ list[i].confidence > list[j].confidence
                 \/ /\ list[i].confidence = list[j].confidence
                    /\ list[i].index < list[j].index

PlaysInOrder(list) ==
    \A i, j \in 1..Len(list) :
        i < j => \/ list[i].similarity > list[j].similarity
                 \/ /\ list[i].similarity = list[j].similarity
                    /\ list[i].index < list[j].index

\* C3: the four result lists are in descending similarity order with ties
\* by ascending corpus index; a list stored for a response is the list
\* received and has at most the K of its request; the cards are in the
\* order of the list, the song cards with rank i+1 at position i.
C3_RankedLists ==
    /\ [](/\ SongsInOrder(dspResults) /\ SongsInOrder(aiResults)
          /\ PlaysInOrder(similarPlays) /\ PlaysInOrder(similarGoals))
    /\ [](/\ \A j \in 1..Len(dspResults) :
                /\ ResultsSection.dsp[j].song = dspResults[j]
                /\ ResultsSection.dsp[j].rank = j
          /\ Len(ResultsSection.dsp) = Len(dspResults)
          /\ \A j \in 1..Len(aiResults) :
                /\ ResultCards(aiResults)[j].song = aiResults[j]
                /\ ResultCards(aiResults)[j].rank = j
          /\ \A j \in 1..Len(similarPlays) :
                SimilarPlayCards[j].play = similarPlays[j]
          /\ Len(SimilarPlayCards) = Len(similarPlays)
          /\ \A j \in 1..Len(similarGoals) :
                SimilarGoalCards[j].goal = similarGoals[j]
          /\ Len(SimilarGoalCards) = Len(similarGoals))
    /\ [][ (SongResponseStep /\ ~IsApp /\ songOutcome' = "answered") =>
             /\ dspResults' = SongAnswer.dsp[1]
             /\ aiResults' = SongAnswer.ai[1]
             /\ Len(dspResults') <= ParseInt(songReq[1].top_n[1])[1]
             /\ Len(aiResults') <= ParseInt(songReq[1].top_n[1])[1] ]_vars
    /\ [][ (PlayResponseStep /\ error' = Null) =>
             /\ similarPlays' = PlayAnswer.similar
             /\ Len(similarPlays') <= fbReq[1].top_k[1] ]_vars
    /\ [][ ( /\ fbReq # Null /\ fbReq[1].kind = "goal" /\ fbReq' = Null
             /\ goalError' = Null ) =>
             /\ similarGoals' = SimilarGoals(fbReq[1]).similar
             /\ Len(similarGoals') <= fbReq[1].top_k[1] ]_vars

\* Two songs asked for, two equally good matches shown, the one of the
\* lower corpus index first.
C3_Witness ==
    /\ Len(dspResults) = 2 /\ resultCount = 2
    /\ dspResults[1].confidence = dspResults[2].confidence
    /\ dspResults[1].index < dspResults[2].index
    /\ ResultsSection.dsp[2].rank = 2

\* C4: when a play search by a valid index i is answered, the record of i
\* becomes the query play and the list stored in similarPlays has no entry
\* with index i; and no state shows the query play in its own list.
C4_QueryExcluded ==
    /\ [][ (PlayResponseStep /\ error' = Null) =>
             /\ queryPlay' = Some(PlayRecord(fbReq[1].index[1]))
             /\ similarPlays' = PlayAnswer.similar
             /\ \A i \in 1..Len(similarPlays') :
                  similarPlays'[i].index # fbReq[1].index[1] ]_vars
    /\ [](queryPlay # Null =>
             \A i \in 1..Len(similarPlays) :
                 similarPlays[i].index # queryPlay[1].index)

\* A search by index 0 has returned every other play of the corpus.
C4_Witness ==
    /\ queryPlay = Some(PlayRecord(0))
    /\ Len(similarPlays) = NumPlays - 1

\* C5: when a play search is answered with an error object carrying
\* total_plays = N, the error is set, queryPlay is null, similarPlays is
\* empty and the hint shows the range 0 to N-1.
C5_ErrorWithRange ==
    [][ ( /\ PlayResponseStep
          /\ PlayAnswer.error # Null /\ PlayAnswer.total_plays # Null
          /\ error' # Some(MsgConnect) ) =>
            /\ error' = PlayAnswer.error
            /\ queryPlay' = Null
            /\ similarPlays' = << >>
            /\ ErrorHintView' = Some(<< 0, PlayAnswer.total_plays[1] - 1 >>) ]_vars

\* The first search of the session was out of range: the range is shown.
C5_Witness ==
    /\ error = Some(ErrIndexOutOfRange) /\ queryPlay = Null
    /\ similarPlays = << >> /\ ErrorHintView = Some(<< 0, NumPlays - 1 >>)

\* A step in which a play search is sent.
PlaySendStep == fbReq = Null /\ fbReq' # Null /\ fbReq'[1].kind = "play"

\* C6: the fields -1, 0, totalPlays-1 and totalPlays are sent as these
\* indices, the field 0 is not rejected as missing, and an answered play
\* search fails with IndexOutOfRange exactly when its index is outside
\* [0, totalPlays).
C6_IndexOutOfRange ==
    /\ [][ PlaySendStep =>
             /\ playId = << "-", "1" >> => fbReq'[1].index = Some(-1)
             /\ playId = << "0" >> => fbReq'[1].index = Some(0)
             /\ playId = DecimalText(NumPlays - 1)
                  => fbReq'[1].index = Some(NumPlays - 1)
             /\ playId = DecimalText(NumPlays)
                  => fbReq'[1].index = Some(NumPlays) ]_vars
    /\ [][ (error' = Some(MsgEnterPlayId) /\ error # error')
             => playId = << >> ]_vars
    /\ [][ ( /\ PlayResponseStep /\ fbReq[1].index # Null
             /\ error' # Some(MsgConnect) ) =>
             ( error' = Some(ErrIndexOutOfRange)
                 <=> ~(0 <= fbReq[1].index[1] /\ fbReq[1].index[1] < NumPlays) ) ]_vars

\* The search by the index totalPlays has been answered with IndexOutOfRange.
C6_Witness ==
    /\ playId = DecimalText(NumPlays) /\ fbReq = Null
    /\ error = Some(ErrIndexOutOfRange) /\ totalPlays = Some(NumPlays)

\* C7: every song search request carries a method, one of dsp, ai, both.
C7_MethodCarried ==
    songReq # Null =>
        songReq[1].method # Null /\ songReq[1].method[1] \in Methods

\* C8: once searches have been sent with the method control in each of
\* its positions, requests of all three methods have been sent.
C8_EveryMethodSent ==
    (triedSettings = BOOLEAN) => (Methods \subseteq sentMethods)

\* No request of the method ai alone is ever sent.
AiAloneNeverSent == "ai" \notin sentMethods

\* The original statement of C9: an answered search of method both without
\* the AI model ends with the DSP list stored and shown non-empty, the AI
\* list empty, no failure alert, and isSearching false.
C9_BothWithoutAi ==
    [][ ( /\ SongResponseStep /\ songOutcome' = "answered"
          /\ songReq[1].method = Some("both") /\ ~aiAvailable ) =>
            /\ Len(dspResults') > 0
            /\ Len(ResultsSection'.dsp) > 0
            /\ aiResults' = << >>
            /\ alertMsg' # Some(MsgSongConnect)
            /\ ~isSearching' ]_vars

\* C9: an answered search of method both without the AI model, for audio
\* the DSP extractor can process, ends with the DSP list stored and shown
\* non-empty, the AI list empty, no alert, and isSearching false.
C9_BothWithoutAiAudible ==
    [][ ( /\ SongResponseStep /\ songOutcome' = "answered"
          /\ songReq[1].method = Some("both") /\ ~aiAvailable
          /\ DspFeatures(songReq[1].audio) # Null ) =>
            /\ Len(dspResults') > 0
            /\ Len(ResultsSection'.dsp) > 0
            /\ aiResults' = << >> /\ ResultsSection'.ai = << >>
            /\ alertMsg' = Null
            /\ ~isSearching' ]_vars

\* A comparison search without the AI model has been answered.
C9_Witness ==
    /\ ~aiAvailable /\ useAiModel /\ songOutcome = "answered"
    /\ Len(dspResults) > 0 /\ aiResults = << >>
    /\ ~isSearching /\ alertMsg = Null

\* C10: dspResults and aiResults change only by being emptied together or
\* by taking the dsp list and the ai list of one response; every entry of a
\* list is scored against its own method's corpus; each column numbers its
\* cards from 1 in the order of its list.
C10_ListsApart ==
    /\ [][ (~IsApp /\ (dspResults' # dspResults \/ aiResults' # aiResults)) =>
             \/ dspResults' = << >> /\ aiResults' = << >>
             \/ /\ SongResponseStep /\ songOutcome' = "answered"
                /\ dspResults' = SongAnswer.dsp[1]
                /\ aiResults' = SongAnswer.ai[1] ]_vars
    /\ [](/\ \A j \in 1..Len(dspResults) :
                LET e == dspResults[j]
                IN  /\ SongDspVectors[e.index + 1] # Null
                    /\ e.confidence =
                         CosineSimilarity(DspFeatures("tune")[1],
                                          SongDspVectors[e.index + 1][1])
          /\ \A j \in 1..Len(aiResults) :
                LET e == aiResults[j]
                IN  /\ SongAiVectors[e.index + 1] # Null
                    /\ e.confidence =
                         CosineSimilarity(AiFeatures("tune", TRUE)[1],
                                          SongAiVectors[e.index + 1][1]))
    /\ [](useAiModel =>
            /\ \A j \in 1..Len(ResultsSection.dsp) :
                 /\ ResultsSection.dsp[j].rank = j
                 /\ ResultsSection.dsp[j].song = dspResults[j]
            /\ \A j \in 1..Len(ResultsSection.ai) :
                 /\ ResultsSection.ai[j].rank = j
                 /\ ResultsSection.ai[j].song = aiResults[j])

\* Comparison mode shows two lists that start with different songs.
C10_Witness ==
    /\ useAiModel /\ Len(dspResults) > 1 /\ Len(aiResults) > 1
    /\ dspResults[1].index # aiResults[1].index
    /\ ResultsSection.ai[1].rank = 1

\* C11: every song search request carries a result count top_n that is an
\* integer in 1..5, in every version of the song view.
C11_TopNCarried ==
    songReq # Null =>
        /\ songReq[1].top_n # Null
        /\ ParseInt(songReq[1].top_n[1]) # Null
        /\ ParseInt(songReq[1].top_n[1])[1] \in 1..5

\* C12: every play-search and goal-search request carries top_k in
\* {3, 5, 10, 15, 20} and max_events_in_description in {3, 5, 8, 10, 15, 20}
\* or the sentinel 999.
C12_EnumeratedOptions ==
    fbReq # Null =>
        /\ fbReq[1].top_k # Null
        /\ fbReq[1].top_k[1] \in { 3, 5, 10, 15, 20 }
        /\ fbReq[1].max_events # Null
        /\ fbReq[1].max_events[1] \in { 3, 5, 8, 10, 15, 20, 999 }

\* A play search with the last option of the Results select and the
\* option 8 of the Events select is in flight, after another search of the
\* session was answered.
C12_Witness ==
    /\ fbReq # Null /\ fbReq[1].kind = "play"
    /\ fbReq[1].top_k = Some(20) /\ fbReq[1].max_events = Some(8)
    /\ totalPlays # Null

\* C13: every play-search request carries a play index that is a
\* non-negative integer, whatever the text of the play-index field.
C13_PlayIndexNonNegative ==
    (fbReq # Null /\ fbReq[1].kind = "play") =>
        fbReq[1].index # Null /\ fbReq[1].index[1] >= 0

\* A step in which a goal search is sent.
GoalSendStep == fbReq = Null /\ fbReq' # Null /\ fbReq'[1].kind = "goal"

\* The play indices of the goals of a country of the corpus.
GoalIndicesOf(country) ==
    IF country \in Countries
    THEN { i \in GoalIndices : PlayGoalTeams[i + 1] = country }
    ELSE {}

\* C14: when a goal search is sent, its play_index is the play index of a
\* goal of the country selected at that moment.
C14_GoalOfSelectedCountry ==
    [][ GoalSendStep =>
          /\ fbReq'[1].index # Null
          /\ fbReq'[1].index[1] \in GoalIndicesOf(selectedCountry) ]_vars

\* C15: two identical queries, answered at any two points of a run with
\* any other queries between them, failed ones included, get the same
\* ordered list; candidates that tie are listed by ascending index.
C15_Deterministic ==
    \A i, j \in 1..Len(engLog) :
        /\ (engLog[i][1] = engLog[j][1]) => (engLog[i][2] = engLog[j][2])
        /\ \A m, n \in 1..Len(engLog[i][2].list) :
              LET c == engLog[i][2].list[m]
                  d == engLog[i][2].list[n]
              IN  (m < n /\ c.similarity = d.similarity) => c.index < d.index

\* A query whose candidates tie was answered twice with a failed query
\* between the two answers.
C15_Witness ==
    /\ Len(engLog) = 3
    /\ engLog[1][1] = engLog[3][1]
    /\ engLog[2][1] # engLog[1][1] /\ EngineFailed(engLog[2][2])
    /\ LET l == engLog[1][2].list
       IN  Len(l) >= 2 /\ l[1].similarity = l[2].similarity

\* C17: under every interleaving of the workers each corpus is loaded at
\* most once, a loaded corpus holds its static input, and no step, the
\* answer to a failed request included, changes a loaded corpus.
C17_LoadedOnce ==
    /\ [](\A c \in Corpora :
            /\ corpusLoads[c] <= 1
            /\ (corpusState[c] = "loaded") =>
                  (corpusLoads[c] = 1 /\ corpusRows[c] = CorpusInput(c)))
    /\ [][\A c \in Corpora :
            (corpusState[c] = "loaded") =>
               /\ corpusState'[c] = "loaded"
               /\ corpusRows'[c] = corpusRows[c]]_vars

\* A first request waited for the load another first request had started,
\* and a failed request was answered after the load.
C17_Witness ==
    /\ engWaits > 0
    /\ corpusState["plays"] = "loaded" /\ corpusLoads["plays"] = 1
    /\ \E i \in 1..Len(engLog) :
         engLog[i][1].corpus = "plays" /\ EngineFailed(engLog[i][2])
    /\ corpusRows["plays"] = CorpusInput("plays")

\* C16: for every pair of vectors a, b of the same dimension the score is
\* symmetric, lies between -1 and 1, is 1 for a non-zero vector with
\* itself, is 0 when either vector has norm 0, and is the same when either
\* vector is scaled by a positive factor.
C16_CosineLaws ==
    simOut # Null =>
        LET a == simArgs[1].a
            b == simArgs[1].b
            r == simOut[1]
        IN  /\ r.ab = r.ba
            /\ -SimScale <= r.ab /\ r.ab <= SimScale
            /\ (NormSq(a) # 0) => (r.aa = SimScale)
            /\ (NormSq(a) = 0 \/ NormSq(b) = 0) => (r.ab = 0)
            /\ r.scaledLeft = r.ab
            /\ r.scaledRight = r.ab

\* Two non-zero vectors that are neither parallel nor orthogonal, scored
\* with a factor above 1.
C16_Witness ==
    /\ simOut # Null /\ simArgs[1].k > 1
    /\ simArgs[1].a # simArgs[1].b
    /\ simOut[1].ab < 0 /\ simOut[1].ab > -SimScale
    /\ simOut[1].aa = SimScale

\* C18: when the response of a search has both lists empty, the UI of the
\* later versions reports that no results were found, raises no
\* connection-failure alert, keeps the audio it holds, sets isSearching to
\* false, and a new search can be started.
C18_NoResultsReported ==
    [][ ( /\ SongResponseStep /\ songOutcome' = "answered" /\ ~IsApp
          /\ SongAnswer.dsp[1] = << >> /\ SongAnswer.ai[1] = << >> ) =>
            /\ alertMsg' = Some(MsgNoResults)
            /\ alertMsg' # Some(MsgSongConnect)
            /\ audioBlob' = audioBlob /\ uploadedFile' = uploadedFile
            /\ ~isSearching'
            /\ (AudioSource # Null) => (AudioSource' # Null) ]_vars

\* A step in which a recording is stopped.
StopStep == isRecording /\ ~isRecording'

\* A step in which a stop is refused.
RefusedStopStep == alertMsg' = Some(MsgMinRecording)

\* C19: in every version a recording is stopped only at recordingTime >= 10,
\* and a refused stop leaves the recording, its recorder, timer and stream
\* running and audioBlob null.
C19_MinimumRecording ==
    [][ /\ StopStep => (recordingTime >= 10)
        /\ RefusedStopStep =>
              /\ recordingTime < 10
              /\ isRecording' /\ audioBlob' = Null
              /\ UNCHANGED << mediaRecorder, timerLive, streamRefLive,
                              contextOpen, onstopPending >> ]_vars

\* C20: once the song view is off screen and the work it had started has
\* settled, no interval and no animation frame is scheduled, no microphone
\* track is live and no audio context is open.
C20_UnmountReleases ==
    (mounted = "unmounted" /\ micPending = 0 /\ onstopPending = 0) =>
        /\ ~timerLive /\ ~leakedTimer
        /\ ~FrameLive /\ ~LeakedFrame
        /\ ~streamRefLive /\ ~contextOpen /\ ~leakedAudio

\* A step in which getUserMedia is granted and a recording starts.
GrantStep == micPending' < micPending /\ alertMsg' = Null

\* A step in which the onstop of a stopped recorder runs.
OnstopStep == onstopPending' < onstopPending

\* C21: a recording starts only when no interval runs, no microphone stream
\* is live and no recorder is active, no interval is ever left running
\* beside the current one, and an onstop that runs while a later recording
\* is active leaves the stream of that recording alone.
C21_OneRecordingSession ==
    [][ /\ GrantStep =>
              /\ ~timerLive /\ ~leakedTimer
              /\ ~streamRefLive
              /\ mediaRecorder # "recording"
        /\ (OnstopStep /\ mediaRecorder = "recording") =>
              UNCHANGED streamRefLive ]_vars

\* C22: whenever isRecording is true the record view is shown with its stop
\* control: inputMode is "record" and audioBlob is null.
C22_StopControlShown ==
    isRecording => (inputMode = "record" /\ audioBlob = Null)


\* Steps by which a search fetch settles.
FootballResponseStep == Len(fbReq') < Len(fbReq)

SongSettleStep == Len(songReq') < Len(songReq)

\* C23: a busy flag is set only while a fetch of its search is awaited, and
\* the step by which the fetch settles (an answer, an error object, or a
\* thrown failure) leaves isSearching, respectively isLoading, false.
C23_BusyStateEnds ==
    /\ [](isSearching => songReq # Null)
    /\ [](isLoading => fbReq # Null)
    /\ [][ /\ SongSettleStep => ~isSearching'
           /\ FootballResponseStep => ~isLoading' ]_vars

\* A football search has failed to connect and the form is usable again.
C23_Witness ==
    /\ OnFootball /\ fbReq = Null /\ ~isLoading
    /\ (error = Some(MsgConnect) \/ goalError = Some(MsgConnect))

\* C24: at most one song search and at most one football search (play and
\* goal searches together) are awaited at any time, and a search is awaited
\* exactly while the busy flag of its component is set, so that none starts
\* while the flag is set.
C24_OneSearchInFlight ==
    /\ Len(songReq) <= 1 /\ Len(fbReq) <= 1
    /\ (OnSong => (isSearching <=> songReq # Null))
    /\ (OnFootball => (isLoading <=> fbReq # Null))

\* A song search is awaited while the form still holds its audio.
C24_Witness ==
    OnSong /\ isSearching /\ Len(songReq) = 1 /\ AudioSource # Null

\* The result pairs of the two kinds of search.
PlayResultsHeld == queryPlay # Null \/ similarPlays # << >>

GoalResultsHeld == queryGoal # Null \/ similarGoals # << >>

\* C25: play results and goal results are never held together: the pair
\* (queryPlay, similarPlays) and the pair (queryGoal, similarGoals) are not
\* both non-empty.
C25_OneKindOfResults == ~(PlayResultsHeld /\ GoalResultsHeld)

\* Goal results are held alone after a play search had been answered.
C25_Witness ==
    /\ GoalResultsHeld /\ ~PlayResultsHeld
    /\ totalPlays # Null /\ totalPlays[1] # 0

\* C26: while queryPlay is held searchMode is 'play', and while queryGoal
\* is held searchMode is 'goal'.
C26_ModeMatchesQuery ==
    /\ queryPlay # Null => searchMode = "play"
    /\ queryGoal # Null => searchMode = "goal"

\* A goal search has answered: the mode has left its initial 'play' and
\* the query goal is held.
C26_Witness == queryGoal # Null /\ searchMode = "goal" /\ ~isLoading

\* C27: the selected card exists: while similarPlays is non-empty
\* selectedSimilarIdx is one of its indices 0..length-1, and likewise
\* selectedSimilarGoalIdx for similarGoals.
C27_SelectionInRange ==
    /\ similarPlays # << >> =>
          selectedSimilarIdx \in 0 .. (Len(similarPlays) - 1)
    /\ similarGoals # << >> =>
          selectedSimilarGoalIdx \in 0 .. (Len(similarGoals) - 1)

\* The last card of a list of several similar plays is selected.
C27_Witness ==
    /\ Len(similarPlays) > 1
    /\ selectedSimilarIdx = Len(similarPlays) - 1


============================================================================
